---- MODULE Spec2Model ----
(***************************************************************************)
(* vidgrid: four input videos are probed with ffprobe (frame rate, then    *)
(* duration), a 2x2 grid plan is computed, a filter_complex expression is  *)
(* built and ffmpeg is invoked once; the result may be opened in a viewer. *)
(*                                                                         *)
(* Text is modelled as a sequence of lexemes (one-character strings for    *)
(* digits and punctuation of probe output and of rendered numbers, longer  *)
(* strings for the fixed pieces of the format templates).  f64 values are  *)
(* modelled as exact rationals <<n, d>> in lowest terms with d > 0; the    *)
(* non-finite floats and exponent notation cannot be written with the      *)
(* alphabet used for probe output and are outside the model.               *)
(***************************************************************************)
EXTENDS Integers, Sequences, FiniteSets, TLC

VARIABLES args, pc, idx, running, fps, max_input_fps, dur, output_duration,
          video_width, video_height, filter_complex, log, result, exit_code,
          probe_out, probe_res

vars == <<args, pc, idx, running, fps, max_input_fps, dur, output_duration,
          video_width, video_height, filter_complex, log, result, exit_code,
          probe_out, probe_res>>

(***************************************************************************)
(* Bounds of the model.                                                    *)
(***************************************************************************)
\* longest probe output (in characters) examined by the parser specification
MaxLen == 4
\* requested durations range over 0..MaxDuration
MaxDuration == 2
\* output width and height range over 0..MaxDim
MaxDim == 2
\* the frame-rate cap ranges over 0..MaxCap
MaxCap == 2

\* fractional digits kept when a non-terminating f64 is displayed
DisplayPrec == 17

(***************************************************************************)
(* Numbers: rationals, digits.                                             *)
(***************************************************************************)
Digits == {"0", "1", "2", "3", "4", "5", "6", "7", "8", "9"}

DigitVal(c) ==
    CASE c = "0" -> 0 [] c = "1" -> 1 [] c = "2" -> 2 [] c = "3" -> 3
      [] c = "4" -> 4 [] c = "5" -> 5 [] c = "6" -> 6 [] c = "7" -> 7
      [] c = "8" -> 8 [] c = "9" -> 9

DigitChar(n) ==
    CASE n = 0 -> "0" [] n = 1 -> "1" [] n = 2 -> "2" [] n = 3 -> "3"
      [] n = 4 -> "4" [] n = 5 -> "5" [] n = 6 -> "6" [] n = 7 -> "7"
      [] n = 8 -> "8" [] n = 9 -> "9"

IsDigit(c) == c \in Digits

Abs(n) == IF n < 0 THEN -n ELSE n

RECURSIVE GCD(_, _)
GCD(a, b) == IF b = 0 THEN a ELSE GCD(b, a % b)

RECURSIVE Pow10(_)
Pow10(k) == IF k = 0 THEN 1 ELSE 10 * Pow10(k - 1)

\* the rational n/d (d # 0) in lowest terms with a positive denominator
Rat(n, d) ==
    LET g == GCD(Abs(n), Abs(d))
        s == IF d < 0 THEN -1 ELSE 1
    IN  <<(s * n) \div g, (s * d) \div g>>

RatLt(a, b) == a[1] * b[2] < b[1] * a[2]
RatGt(a, b) == RatLt(b, a)
RatDiv(a, b) == Rat(a[1] * b[2], a[2] * b[1])
RatFloor(a) == a[1] \div a[2]

RECURSIVE DigitsToNat(_)
DigitsToNat(s) ==
    IF s = <<>> THEN 0
    ELSE 10 * DigitsToNat(SubSeq(s, 1, Len(s) - 1)) + DigitVal(s[Len(s)])

(***************************************************************************)
(* Result<T, Box<dyn Error>>                                               *)
(***************************************************************************)
Ok(v) == [ok |-> TRUE, val |-> v]
Err(m, a) == [ok |-> FALSE, err |-> [msg |-> m, arg |-> a]]

(***************************************************************************)
(* Text helpers (std): trim, split, from_utf8, f64::from_str, to_string.   *)
(***************************************************************************)
Whitespace == {" ", "\n"}
\* a byte that is not valid UTF-8
BadByte == "0xFF"

RECURSIVE TrimStart(_)
TrimStart(s) ==
    IF s # <<>> /\ s[1] \in Whitespace THEN TrimStart(Tail(s)) ELSE s

RECURSIVE TrimEnd(_)
TrimEnd(s) ==
    IF s # <<>> /\ s[Len(s)] \in Whitespace
    THEN TrimEnd(SubSeq(s, 1, Len(s) - 1)) ELSE s

Trim(s) == TrimEnd(TrimStart(s))

Contains(s, c) == \E i \in 1..Len(s) : s[i] = c

\* str::split(c): the pieces between the occurrences of c (n occurrences
\* give n + 1 pieces, empty pieces included)
RECURSIVE FindFrom(_, _, _)
FindFrom(s, c, k) ==
    IF k > Len(s) THEN 0 ELSE IF s[k] = c THEN k ELSE FindFrom(s, c, k + 1)

RECURSIVE Split(_, _)
Split(s, c) ==
    LET i == FindFrom(s, c, 1)
    IN  IF i = 0 THEN <<s>>
        ELSE <<SubSeq(s, 1, i - 1)>> \o Split(SubSeq(s, i + 1, Len(s)), c)

FromUtf8(bytes) ==
    IF Contains(bytes, BadByte) THEN Err("invalid utf-8 sequence", <<>>)
    ELSE Ok(bytes)

\* f64::from_str on decimal literals: [+-] digits [. digits], at least one
\* digit; anything else is a ParseFloatError
ParseF64(s) ==
    LET signed == s # <<>> /\ s[1] \in {"-", "+"}
        body == IF signed THEN Tail(s) ELSE s
        dots == {i \in 1..Len(body) : body[i] = "."}
        wellFormed == /\ \A i \in 1..Len(body) : body[i] \in Digits \cup {"."}
                      /\ Cardinality(dots) <= 1
                      /\ \E i \in 1..Len(body) : body[i] \in Digits
        fracLen == IF dots = {} THEN 0
                   ELSE Len(body) - (CHOOSE i \in dots : TRUE)
        mag == Rat(DigitsToNat(SelectSeq(body, IsDigit)), Pow10(fracLen))
    IN  IF ~wellFormed THEN Err("invalid float literal", <<>>)
        ELSE IF s[1] = "-" THEN Ok(<<-mag[1], mag[2]>>)
        ELSE Ok(mag)

RECURSIVE NatToString(_)
NatToString(n) ==
    IF n < 10 THEN <<DigitChar(n)>>
    ELSE NatToString(n \div 10) \o <<DigitChar(n % 10)>>

\* u32::to_string / Display for u32
U32ToString(n) == NatToString(n)

RECURSIVE FracDigits(_, _, _)
FracDigits(r, d, k) ==
    IF r = 0 \/ k = 0 THEN <<>>
    ELSE <<DigitChar((10 * r) \div d)>> \o FracDigits((10 * r) % d, d, k - 1)

\* Display for f64: sign, integer part, and the fractional digits if any
F64ToString(v) ==
    LET n == Abs(v[1])
        frac == FracDigits(n % v[2], v[2], DisplayPrec)
    IN  (IF v[1] < 0 THEN <<"-">> ELSE <<>>)
        \o NatToString(n \div v[2])
        \o (IF frac = <<>> THEN <<>> ELSE <<".">> \o frac)

\* f64 `as u32`: saturating.  Negative values give 0; the upper end,
\* u32::MAX, lies beyond the durations the model can write
F64AsU32(n) == IF n < 0 THEN 0 ELSE n

(***************************************************************************)
(* Outcome of a subprocess run with Command::output / Command::status.     *)
(***************************************************************************)
ProcOut(spawned, success, stdout) ==
    [spawned |-> spawned, success |-> success, stdout |-> stdout]

(***************************************************************************)
(* A variant of get_video_framerate without the test of the denominator:   *)
(* the division by zero goes through and a rate (inf, written <<1, 0>>)    *)
(* is returned.                                                            *)
(***************************************************************************)
get_video_framerate_unchecked(video_path, out) ==
    IF ~out.spawned THEN Err("io error", <<"ffprobe">>)
    ELSE IF ~out.success THEN Err("ffprobe failed for", <<video_path>>)
    ELSE LET utf == FromUtf8(out.stdout) IN
    IF ~utf.ok THEN utf
    ELSE LET fps_str == Trim(utf.val) IN
    IF Contains(fps_str, "/")
    THEN LET parts == Split(fps_str, "/") IN
         IF Len(parts) = 2
         THEN LET numerator == ParseF64(parts[1])
                  denominator == ParseF64(parts[2])
              IN  IF ~numerator.ok THEN numerator
                  ELSE IF ~denominator.ok THEN denominator
                  ELSE IF denominator.val[1] = 0 THEN Ok(<<1, 0>>)
                  ELSE Ok(RatDiv(numerator.val, denominator.val))
         ELSE Err("Invalid frame rate format:", fps_str)
    ELSE ParseF64(fps_str)

(***************************************************************************)
(* get_video_framerate, given what the ffprobe subprocess did.             *)
(***************************************************************************)
get_video_framerate(video_path, out) ==
    IF ~out.spawned THEN Err("io error", <<"ffprobe">>)
    ELSE IF ~out.success THEN Err("ffprobe failed for", <<video_path>>)
    ELSE LET utf == FromUtf8(out.stdout) IN
    IF ~utf.ok THEN utf
    ELSE LET fps_str == Trim(utf.val) IN
    IF Contains(fps_str, "/")
    THEN LET parts == Split(fps_str, "/") IN
         IF Len(parts) = 2
         THEN LET numerator == ParseF64(parts[1])
                  denominator == ParseF64(parts[2])
              IN  IF ~numerator.ok THEN numerator
                  ELSE IF ~denominator.ok THEN denominator
                  ELSE IF denominator.val[1] = 0
                       THEN Err("Invalid frame rate denominator in", <<video_path>>)
                  ELSE Ok(RatDiv(numerator.val, denominator.val))
         ELSE Err("Invalid frame rate format:", fps_str)
    ELSE ParseF64(fps_str)

(***************************************************************************)
(* get_video_duration, given what the ffprobe subprocess did.              *)
(***************************************************************************)
get_video_duration(video_path, out) ==
    IF ~out.spawned THEN Err("io error", <<"ffprobe">>)
    ELSE IF ~out.success THEN Err("ffprobe failed for", <<video_path>>)
    ELSE LET utf == FromUtf8(out.stdout) IN
    IF ~utf.ok THEN utf
    ELSE LET dur_f64 == ParseF64(Trim(utf.val)) IN
    IF ~dur_f64.ok THEN dur_f64
    ELSE Ok(F64AsU32(RatFloor(dur_f64.val)))

(***************************************************************************)
(* The grid plan (create_video_grid, steps 1 to 3).                        *)
(***************************************************************************)
\* f64::max
F64Max(a, b) == IF RatLt(a, b) THEN b ELSE a
\* u32::max
U32MaxOf(a, b) == IF a < b THEN b ELSE a

\* a variant without the cap
MaxInputFpsUncapped(f, max_framerate) ==
    F64Max(F64Max(F64Max(f[1], f[2]), f[3]), f[4])

\* max_input_fps: the largest input rate, capped at max_framerate
MaxInputFps(f, max_framerate) ==
    LET m == F64Max(F64Max(F64Max(f[1], f[2]), f[3]), f[4])
    IN  IF RatGt(m, max_framerate) THEN max_framerate ELSE m

\* a variant that pads to the requested duration
OutputDurationRequested(duration, d) == duration

\* output_duration: min(user duration, longest input)
OutputDuration(duration, d) ==
    LET max_input_duration == U32MaxOf(U32MaxOf(U32MaxOf(d[1], d[2]), d[3]), d[4])
    IN  IF duration < max_input_duration THEN duration ELSE max_input_duration

VideoWidth(output_width) == output_width \div 2
VideoHeight(output_height) == output_height \div 2

(***************************************************************************)
(* The filter expression (create_video_grid, step 3).                      *)
(***************************************************************************)
scale_pad(vw, vh) ==
    <<"scale=">> \o U32ToString(vw) \o <<":">> \o U32ToString(vh)
    \o <<":force_original_aspect_ratio=decrease,pad=">>
    \o U32ToString(vw) \o <<":">> \o U32ToString(vh)
    \o <<":(ow-iw)/2:(oh-ih)/2">>

videos == << <<"0:v", "vid1">>, <<"1:v", "vid2">>,
             <<"2:v", "vid3">>, <<"3:v", "vid4">> >>

\* one per-input chain: scale, pad, reset PTS, set the frame rate, fifo
CellFilter(input, label, sp, rate) ==
    <<"[", input, "]">> \o sp \o <<",setpts=PTS-STARTPTS,fps=fps=">>
    \o F64ToString(rate) \o <<",fifo", "[", label, "]", ";">>

\* a variant whose second horizontal stack reuses the label of the first
StackFiltersReusedLabel ==
    << <<"[", "vid1", "]", "[", "vid2", "]", "hstack=inputs=2", "[", "top", "]", ";">>,
       <<"[", "vid3", "]", "[", "vid4", "]", "hstack=inputs=2", "[", "top", "]", ";">>,
       <<"[", "top", "]", "[", "bottom", "]", "vstack=inputs=2", "[", "final", "]">> >>

StackFilters ==
    << <<"[", "vid1", "]", "[", "vid2", "]", "hstack=inputs=2", "[", "top", "]", ";">>,
       <<"[", "vid3", "]", "[", "vid4", "]", "hstack=inputs=2", "[", "bottom", "]", ";">>,
       <<"[", "top", "]", "[", "bottom", "]", "vstack=inputs=2", "[", "final", "]">> >>

Filters(vw, vh, rate) ==
    [i \in 1..Len(videos) |->
        CellFilter(videos[i][1], videos[i][2], scale_pad(vw, vh), rate)]
    \o StackFilters

\* [String]::join(sep)
RECURSIVE Join(_, _)
Join(ss, sep) ==
    IF ss = <<>> THEN <<>>
    ELSE IF Len(ss) = 1 THEN ss[1]
    ELSE ss[1] \o <<sep>> \o Join(Tail(ss), sep)

FilterComplex(vw, vh, rate) == Join(Filters(vw, vh, rate), " ")

(***************************************************************************)
(* The ffmpeg command line (create_video_grid, step 4): one argument per   *)
(* element, each argument a text.                                          *)
(***************************************************************************)
\* a variant that passes the third input before the second
FfmpegArgsSwapped(a, fc, out_dur) ==
    << <<"-i">>, <<a.in[1]>>, <<"-i">>, <<a.in[3]>>,
       <<"-i">>, <<a.in[2]>>, <<"-i">>, <<a.in[4]>>,
       <<"-filter_complex">>, fc,
       <<"-map">>, <<"[", "final", "]">>,
       <<"-t">>, U32ToString(out_dur),
       <<"-vsync">>, <<"2">>, <<"-y">>, <<a.output_path>> >>

FfmpegArgs(a, fc, out_dur) ==
    << <<"-i">>, <<a.in[1]>>, <<"-i">>, <<a.in[2]>>,
       <<"-i">>, <<a.in[3]>>, <<"-i">>, <<a.in[4]>>,
       <<"-filter_complex">>, fc,
       <<"-map">>, <<"[", "final", "]">>,
       <<"-t">>, U32ToString(out_dur),
       <<"-vsync">>, <<"2">>, <<"-y">>, <<a.output_path>> >>

(***************************************************************************)
(* Inputs of a run.                                                        *)
(***************************************************************************)
\* default_value_t of --duration
DefaultDuration == 15

PathTuples == { <<"a.mp4", "b.mp4", "c.mp4", "d.mp4">> }

ArgsSet ==
    [in : PathTuples,
     duration : 0..MaxDuration \cup {DefaultDuration},
     width : 0..MaxDim,
     height : 0..MaxDim,
     max_framerate : {<<c, 1>> : c \in 0..MaxCap},
     output_path : {"output.mp4"},
     open : BOOLEAN]

\* (options.rs declares neither max_framerate nor open; main.rs passes
\* args.max_framerate as the f64 cap and tests args.open)

\* what an ffprobe subprocess asked for r_frame_rate may print
FpsStdouts ==
    { <<"1", "/", "2", "\n">>, <<"2", "/", "1", "\n">>, <<"2", "\n">>,
      <<"1", "/", "0", "\n">>, <<"2", "/", "1", "\n", "2", "/", "1", "\n">>,
      <<"N", "/", "A", "\n">>, <<>>, <<BadByte>> }

\* what an ffprobe subprocess asked for the duration may print
DurStdouts ==
    { <<"0", ".", "9", "\n">>, <<"1", "2", ".", "5", "\n">>, <<"1", "2", "\n">>,
      <<"N", "/", "A", "\n">>, <<BadByte>> }

ProbeOutcomes(stdouts) ==
    {ProcOut(TRUE, FALSE, <<>>)} \cup {ProcOut(TRUE, TRUE, s) : s \in stdouts}

(***************************************************************************)
(* The run: main and create_video_grid.                                    *)
(***************************************************************************)
NoErr == [msg |-> "", arg |-> <<>>]
Running == [state |-> "running", err |-> NoErr]

\* one entry of the run's history of external invocations
Invocation(tool, what, input, path, argv, outcome, error) ==
    [tool |-> tool, what |-> what, input |-> input, path |-> path,
     argv |-> argv, outcome |-> outcome, error |-> error]

\* a subprocess was started and is being waited for
Started(tool, what, input, path, argv) ==
    Invocation(tool, what, input, path, argv, "running", NoErr)

\* the call made the attempt and came back with r without a live subprocess
Attempted(tool, what, input, path, argv, r) ==
    Invocation(tool, what, input, path, argv,
               IF r.ok THEN "ok" ELSE "failed", IF r.ok THEN NoErr ELSE r.err)

\* the call waiting for the subprocess in flight came back with r
Ended(l, r) ==
    [l EXCEPT ![Len(l)].outcome = IF r.ok THEN "ok" ELSE "failed",
              ![Len(l)].error = IF r.ok THEN NoErr ELSE r.err]

\* a variant that starts the next child without waiting for the last one
ChildNotAwaited == running \in {"none", "ffprobe"}

\* Command::output and Command::status block until the child has exited:
\* the next call is made with no child of this run alive
ChildReaped == running = "none"

\* the `?` after get_video_framerate(..), get_video_duration(..) and
\* .status(): the result is passed on as it is, an Err to the caller
\* variants that swallow the error: unwrap_or_default() on a probe result,
\* an encoder status that is never looked at
FpsTryOrDefault(r) == IF r.ok THEN r ELSE Ok(<<0, 1>>)
DurTryOrDefault(r) == IF r.ok THEN r ELSE Ok(0)
EncodeTryIgnored(r) == Ok(<<>>)

FpsTry(r) == r
DurTry(r) == r
EncodeTry(r) == r


planVars == <<fps, max_input_fps, dur, output_duration, video_width,
              video_height, filter_complex>>
parseVars == <<probe_out, probe_res>>

\* an error leaves create_video_grid through `?` and main through `?`:
\* the process ends with a failure exit code
Fail(e) ==
    /\ pc' = "done"
    /\ idx' = 0
    /\ result' = [state |-> "err", err |-> e]
    /\ exit_code' = 1

\* lines 139-150: `?` on a frame-rate probe, then the capped maximum
FpsContinue(r) ==
    LET q == FpsTry(r) IN
    IF ~q.ok
    THEN Fail(q.err) /\ UNCHANGED <<fps, max_input_fps>>
    ELSE /\ fps' = Append(fps, q.val)
         /\ IF idx = 4
            THEN /\ max_input_fps' = MaxInputFps(fps', args.max_framerate)
                 /\ pc' = "dur"
                 /\ idx' = 1
            ELSE /\ idx' = idx + 1
                 /\ UNCHANGED <<pc, max_input_fps>>
         /\ UNCHANGED <<result, exit_code>>

\* lines 153-204: `?` on a duration probe, then the plan and the filter
DurContinue(r) ==
    LET q == DurTry(r) IN
    IF ~q.ok
    THEN Fail(q.err)
         /\ UNCHANGED <<dur, output_duration, video_width, video_height,
                        filter_complex>>
    ELSE /\ dur' = Append(dur, q.val)
         /\ IF idx = 4
            THEN /\ output_duration' = OutputDuration(args.duration, dur')
                 /\ video_width' = VideoWidth(args.width)
                 /\ video_height' = VideoHeight(args.height)
                 /\ filter_complex' =
                        FilterComplex(video_width', video_height', max_input_fps)
                 /\ pc' = "encode"
                 /\ idx' = 0
            ELSE /\ idx' = idx + 1
                 /\ UNCHANGED <<pc, output_duration, video_width, video_height,
                                filter_complex>>
         /\ UNCHANGED <<result, exit_code>>

\* lines 226-232 and 238-254: `?` on the encoder's status, the return of
\* create_video_grid to main, and main's test of the open flag
EncodeContinue(r) ==
    LET q == EncodeTry(r) IN
    IF ~q.ok
    THEN Fail(q.err)
    ELSE IF args.open
    THEN /\ pc' = "open"
         /\ UNCHANGED <<idx, result, exit_code>>
    ELSE /\ pc' = "done"
         /\ result' = [state |-> "ok", err |-> NoErr]
         /\ exit_code' = 0
         /\ UNCHANGED idx

\* Command::new("ffprobe") ... .output(): the subprocess is started, or
\* cannot be started
FpsSpawn ==
    /\ pc = "fps" /\ ChildReaped
    /\ \E spawned \in BOOLEAN :
          IF spawned
          THEN /\ running' = "ffprobe"
               /\ log' = Append(log, Started("ffprobe", "fps", idx,
                                             args.in[idx], <<>>))
               /\ UNCHANGED <<pc, idx, result, exit_code, fps, max_input_fps>>
          ELSE LET r == get_video_framerate(args.in[idx],
                                            ProcOut(FALSE, FALSE, <<>>))
               IN  /\ log' = Append(log, Attempted("ffprobe", "fps", idx,
                                                   args.in[idx], <<>>, r))
                   /\ FpsContinue(r)
                   /\ UNCHANGED running
    /\ UNCHANGED <<args, dur, output_duration, video_width, video_height,
                   filter_complex, parseVars>>

\* the ffprobe subprocess ends; get_video_framerate returns
FpsExit ==
    /\ pc = "fps" /\ running = "ffprobe"
    /\ \E out \in ProbeOutcomes(FpsStdouts) :
          LET r == get_video_framerate(args.in[idx], out)
          IN  /\ log' = Ended(log, r)
              /\ FpsContinue(r)
    /\ running' = "none"
    /\ UNCHANGED <<args, dur, output_duration, video_width, video_height,
                   filter_complex, parseVars>>

DurSpawn ==
    /\ pc = "dur" /\ ChildReaped
    /\ \E spawned \in BOOLEAN :
          IF spawned
          THEN /\ running' = "ffprobe"
               /\ log' = Append(log, Started("ffprobe", "dur", idx,
                                             args.in[idx], <<>>))
               /\ UNCHANGED <<pc, idx, result, exit_code, dur, output_duration,
                              video_width, video_height, filter_complex>>
          ELSE LET r == get_video_duration(args.in[idx],
                                           ProcOut(FALSE, FALSE, <<>>))
               IN  /\ log' = Append(log, Attempted("ffprobe", "dur", idx,
                                                   args.in[idx], <<>>, r))
                   /\ DurContinue(r)
                   /\ UNCHANGED running
    /\ UNCHANGED <<args, fps, max_input_fps, parseVars>>

DurExit ==
    /\ pc = "dur" /\ running = "ffprobe"
    /\ \E out \in ProbeOutcomes(DurStdouts) :
          LET r == get_video_duration(args.in[idx], out)
          IN  /\ log' = Ended(log, r)
              /\ DurContinue(r)
    /\ running' = "none"
    /\ UNCHANGED <<args, fps, max_input_fps, parseVars>>

\* Command::new("ffmpeg") ... .status(): started, or cannot be started
EncodeSpawn ==
    /\ pc = "encode" /\ ChildReaped
    /\ LET argv == FfmpegArgs(args, filter_complex, output_duration) IN
       \E spawned \in BOOLEAN :
          IF spawned
          THEN /\ running' = "ffmpeg"
               /\ log' = Append(log, Started("ffmpeg", "encode", 0,
                                             args.output_path, argv))
               /\ UNCHANGED <<pc, idx, result, exit_code>>
          ELSE LET r == Err("io error", <<"ffmpeg">>)
               IN  /\ log' = Append(log, Attempted("ffmpeg", "encode", 0,
                                                   args.output_path, argv, r))
                   /\ EncodeContinue(r)
                   /\ UNCHANGED running
    /\ UNCHANGED <<args, planVars, parseVars>>

\* the ffmpeg subprocess ends; only its exit status is looked at
EncodeExit ==
    /\ pc = "encode" /\ running = "ffmpeg"
    /\ \E success \in BOOLEAN :
          LET r == IF success THEN Ok(<<>>)
                   ELSE Err("ffmpeg command failed", <<>>)
          IN  /\ log' = Ended(log, r)
              /\ EncodeContinue(r)
    /\ running' = "none"
    /\ UNCHANGED <<args, planVars, parseVars>>

\* main, lines 250-254: open::that(output_path)?
OpenViewer ==
    /\ pc = "open"
    /\ \E opened \in BOOLEAN :
          LET r == IF opened THEN Ok(<<>>) ELSE Err("io error", <<"open">>)
          IN  /\ log' = Append(log, Attempted("open", "open", 0,
                                              args.output_path, <<>>, r))
              /\ IF r.ok
                 THEN /\ pc' = "done"
                      /\ result' = [state |-> "ok", err |-> NoErr]
                      /\ exit_code' = 0
                      /\ UNCHANGED idx
                 ELSE Fail(r.err)
    /\ UNCHANGED <<args, running, planVars, parseVars>>

Init ==
    /\ args \in ArgsSet
    /\ pc = "fps"
    /\ idx = 1
    /\ running = "none"
    /\ fps = <<>>
    /\ max_input_fps = <<0, 1>>
    /\ dur = <<>>
    /\ output_duration = 0
    /\ video_width = 0
    /\ video_height = 0
    /\ filter_complex = <<>>
    /\ log = <<>>
    /\ result = Running
    /\ exit_code = -1
    /\ probe_out = ProcOut(FALSE, FALSE, <<>>)
    /\ probe_res = [ok |-> FALSE, err |-> NoErr]

Next ==
    \/ FpsSpawn
    \/ FpsExit
    \/ DurSpawn
    \/ DurExit
    \/ EncodeSpawn
    \/ EncodeExit
    \/ OpenViewer

Spec == Init /\ [][Next]_vars

(***************************************************************************)
(* get_video_framerate applied to every short ffprobe output.              *)
(***************************************************************************)
Alphabet == {"0", "1", "2", "/", "-", ".", "x", "\n", BadByte}

RECURSIVE Texts(_)
Texts(n) ==
    IF n = 0 THEN {<<>>}
    ELSE LET shorter == Texts(n - 1)
         IN  shorter \cup {Append(t, c) : t \in {u \in shorter : Len(u) = n - 1},
                                          c \in Alphabet}

ProbedPath == "a.mp4"

ParseInit ==
    /\ args \in {a \in ArgsSet : a.in[1] = ProbedPath /\ a.duration = 0
                                 /\ a.width = 0 /\ a.height = 0
                                 /\ a.max_framerate = <<0, 1>> /\ ~a.open}
    /\ pc = "probe"
    /\ idx = 1
    /\ running = "ffprobe"
    /\ fps = <<>>
    /\ max_input_fps = <<0, 1>>
    /\ dur = <<>>
    /\ output_duration = 0
    /\ video_width = 0
    /\ video_height = 0
    /\ filter_complex = <<>>
    /\ log = <<>>
    /\ result = Running
    /\ exit_code = -1
    /\ probe_out \in {ProcOut(TRUE, TRUE, s) : s \in Texts(MaxLen)}
    /\ probe_res = [ok |-> FALSE, err |-> NoErr]

ProbeReturn ==
    /\ pc = "probe"
    /\ probe_res' = get_video_framerate(args.in[idx], probe_out)
    /\ pc' = "probed"
    /\ UNCHANGED <<args, idx, running, planVars, log, result, exit_code, probe_out>>

ParseNext == ProbeReturn

SpecParse == ParseInit /\ [][ParseNext]_vars


(***************************************************************************)
(* Properties of a run, stated on the history of external invocations.     *)
(***************************************************************************)
Entries == 1..Len(log)
ProbeFailedAt(i) == log[i].tool = "ffprobe" /\ log[i].outcome = "failed"
EncodeAt(i) == log[i].tool = "ffmpeg"
ViewerAt(i) == log[i].tool = "open"
ProbeAt(i, what, input) ==
    /\ log[i].tool = "ffprobe"
    /\ log[i].what = what
    /\ log[i].input = input
    /\ log[i].path = args.in[input]

\* C1: once the probing of any input has failed, in the frame-rate pass or
\* in the duration pass (ffprobe cannot be started, exits non-zero, or prints
\* what cannot be parsed), the run has ended with an error and a failure exit
\* code, and the history holds no ffmpeg invocation: since a finished run
\* takes no further step, none is ever made.
C1_ProbeFailureNoEncode ==
    (\E i \in Entries : ProbeFailedAt(i))
        => /\ \A j \in Entries : ~EncodeAt(j)
           /\ pc = "done"
           /\ running = "none"
           /\ result.state = "err"
           /\ exit_code # 0

\* a run in which all four frame rates were read and the duration probe of
\* the third input printed garbage
C1_Witness ==
    /\ pc = "done"
    /\ Len(log) = 7
    /\ ProbeFailedAt(7)
    /\ log[7].what = "dur"
    /\ log[7].error.msg = "invalid float literal"

\* C7 as stated: a successful run probed each input once, the probes were
\* made in input order, and one encode followed them.
C7_OneProbePerInput ==
    result.state = "ok" =>
        /\ \A k \in 1..4 :
              Cardinality({i \in Entries : log[i].tool = "ffprobe"
                                           /\ log[i].input = k}) = 1
        /\ \A i, j \in Entries :
              (i < j /\ log[i].tool = "ffprobe" /\ log[j].tool = "ffprobe")
                  => log[i].input < log[j].input
        /\ Cardinality({i \in Entries : EncodeAt(i)}) = 1
        /\ \A i, j \in Entries : (EncodeAt(i) /\ j > i) => log[j].tool # "ffprobe"

\* C7, amended: each input is probed twice, once per pass.  At most one
\* subprocess is alive at any time and every earlier invocation has ended
\* before the next is made; an encode invocation is the ninth invocation,
\* made after the eight probes (frame rate of inputs 1..4, then duration of
\* inputs 1..4, each once, each pass in input order) all ended well, and no
\* probe follows it; a successful run made exactly these and one encode,
\* which ended well.
C7_TwoProbePassesThenOneEncode ==
    /\ \A i \in Entries : log[i].outcome = "running" =>
            i = Len(log) /\ running = log[i].tool
    /\ running # "none" => Len(log) > 0 /\ log[Len(log)].outcome = "running"
    /\ \A i \in Entries : EncodeAt(i) =>
            /\ i = 9
            /\ \A k \in 1..4 : /\ ProbeAt(k, "fps", k) /\ log[k].outcome = "ok"
                               /\ ProbeAt(4 + k, "dur", k)
                               /\ log[4 + k].outcome = "ok"
            /\ \A j \in Entries : j > i => log[j].tool # "ffprobe"
    /\ result.state = "ok" =>
            /\ Len(log) >= 9
            /\ EncodeAt(9) /\ log[9].outcome = "ok"
            /\ Cardinality({i \in Entries : log[i].tool = "ffprobe"}) = 8
            /\ Cardinality({i \in Entries : EncodeAt(i)}) = 1

\* a successful run without the viewer: eight probes and one encode
C7_Witness ==
    /\ result.state = "ok"
    /\ Len(log) = 9
    /\ EncodeAt(9)
    /\ ProbeAt(4, "fps", 4) /\ ProbeAt(5, "dur", 1)

\* C8: when the encode invocation has failed, the run has ended with an
\* error and a non-zero exit code and the viewer was not opened; the viewer
\* is opened only with the open flag set and after an encode that ended well.
C8_EncodeFailureNoViewer ==
    /\ \A i \in Entries : (EncodeAt(i) /\ log[i].outcome = "failed") =>
            /\ pc = "done"
            /\ result.state = "err"
            /\ result.err = log[i].error
            /\ exit_code # 0
            /\ \A j \in Entries : ~ViewerAt(j)
    /\ \A j \in Entries : ViewerAt(j) =>
            /\ args.open
            /\ \E i \in 1..(j - 1) : EncodeAt(i) /\ log[i].outcome = "ok"
    /\ exit_code = 0 => result.state = "ok"

\* ffmpeg ran, exited non-zero, and the open flag was set
C8_Witness ==
    /\ pc = "done"
    /\ args.open
    /\ Len(log) = 9
    /\ EncodeAt(9) /\ log[9].outcome = "failed"
    /\ log[9].error.msg = "ffmpeg command failed"

\* the k-th external invocation of a run, in the code's order
IsExpected(i) ==
    CASE i \in 1..4 -> ProbeAt(i, "fps", i)
      [] i \in 5..8 -> ProbeAt(i, "dur", i - 4)
      [] i = 9 -> EncodeAt(i)
      [] i = 10 -> ViewerAt(i)
      [] OTHER -> FALSE

\* C10: the invocations made so far are a prefix of the fixed order
\* (frame-rate probe of inputs 1..4, duration probe of inputs 1..4, encode,
\* viewer), so each is attempted at most once; a failed invocation is the
\* last one made, the run has ended, and the error returned is that
\* invocation's error; a run that ended with an error ended with the error
\* of its last invocation.
C10_FailFastFirstError ==
    /\ \A i \in Entries : IsExpected(i)
    /\ \A i \in Entries : log[i].outcome = "failed" =>
            /\ i = Len(log)
            /\ pc = "done"
            /\ running = "none"
            /\ result.state = "err"
            /\ result.err = log[i].error
    /\ result.state = "err" =>
            /\ Len(log) > 0
            /\ log[Len(log)].outcome = "failed"

\* the frame-rate probe of input 4 exits non-zero: that error is returned
\* and no duration probe was made
C10_Witness ==
    /\ pc = "done"
    /\ Len(log) = 4
    /\ ProbeFailedAt(4)
    /\ result.err = [msg |-> "ffprobe failed for", arg |-> <<args.in[4]>>]


(***************************************************************************)
(* Properties of the encoder's command line, read back from the arguments  *)
(* of the ffmpeg invocation in the history.                                *)
(***************************************************************************)
\* the encoder is running: its command line is the one of the last entry
EncodeRunningAt(i) == EncodeAt(i) /\ log[i].outcome = "running"

\* the positions of the arguments that are the flag
FlagAt(argv, flag) == {k \in 1..(Len(argv) - 1) : argv[k] = <<flag>>}

\* the argument after the n-th occurrence of the flag
NthAfter(argv, flag, n) ==
    LET k == CHOOSE p \in FlagAt(argv, flag) :
                 Cardinality({q \in FlagAt(argv, flag) : q <= p}) = n
    IN  argv[k + 1]

ArgAfter(argv, flag) == NthAfter(argv, flag, 1)

SeqRange(q) == {q[k] : k \in 1..Len(q)}
NatMaxOf(q) == CHOOSE m \in SeqRange(q) : \A x \in SeqRange(q) : x <= m
NatMin(a, b) == IF a <= b THEN a ELSE b
RatLe(a, b) == a[1] * b[2] <= b[1] * a[2]
RatMaxOf(q) == CHOOSE m \in SeqRange(q) : \A x \in SeqRange(q) : RatLe(x, m)
RatMin(a, b) == IF RatLe(a, b) THEN a ELSE b

IsNumeral(t) == t # <<>> /\ \A k \in 1..Len(t) : t[k] \in Digits

\* C2: while the encoder runs, the argument after -t of its invocation is the decimal
\* numeral of min(requested duration, max of the four probed durations): it
\* exceeds neither the requested duration nor the longest input.
C2_DurationCap ==
    \A i \in Entries : EncodeRunningAt(i) =>
        LET t == ArgAfter(log[i].argv, "-t")
        IN  /\ Len(dur) = 4
            /\ Cardinality(FlagAt(log[i].argv, "-t")) = 1
            /\ IsNumeral(t)
            /\ DigitsToNat(t) = NatMin(args.duration, NatMaxOf(dur))
            /\ DigitsToNat(t) <= args.duration
            /\ \E k \in 1..4 : DigitsToNat(t) <= dur[k]

\* all four inputs last less than a second and 15 s are requested: the
\* encoder is still invoked, with -t 0
C2_Witness ==
    /\ Len(log) = 9 /\ EncodeRunningAt(9)
    /\ dur = <<0, 0, 0, 0>>
    /\ args.duration = DefaultDuration
    /\ ArgAfter(log[9].argv, "-t") = <<"0">>

\* the segments of a filter expression, blanks between them dropped
IsNotBlank(c) == c # " "
Segments(fc) ==
    LET parts == Split(fc, ";")
    IN  [k \in 1..Len(parts) |-> SelectSeq(parts[k], IsNotBlank)]

FpsLexeme == ",setpts=PTS-STARTPTS,fps=fps="
FifoLexeme == ",fifo"

\* the text of the rate in a per-input segment: what stands between the
\* fps=fps= piece and the fifo piece
RateText(seg) ==
    LET a == CHOOSE k \in 1..Len(seg) : seg[k] = FpsLexeme
        b == CHOOSE k \in 1..Len(seg) : seg[k] = FifoLexeme
    IN  SubSeq(seg, a + 1, b - 1)

HasRate(seg) ==
    /\ Cardinality({k \in 1..Len(seg) : seg[k] = FpsLexeme}) = 1
    /\ Cardinality({k \in 1..Len(seg) : seg[k] = FifoLexeme}) = 1

\* C3: while the encoder runs, each of the first four segments of the
\* filter expression has one fps stage, and the number written there reads
\* back as min(max of the four probed rates, cap); so the four agree, and a
\* maximum equal to the cap gives that value.
C3_EffectiveRate ==
    \A i \in Entries : EncodeRunningAt(i) =>
        \A segs \in {Segments(ArgAfter(log[i].argv, "-filter_complex"))} :
            /\ Len(fps) = 4
            /\ Len(segs) >= 4
            /\ \A k \in 1..4 :
                  /\ HasRate(segs[k])
                  /\ LET rate == ParseF64(RateText(segs[k]))
                     IN  /\ rate.ok
                         /\ rate.val = RatMin(RatMaxOf(fps), args.max_framerate)

\* the largest probed rate equals the cap exactly, and the inputs differ
C3_Witness ==
    /\ Len(log) = 9 /\ EncodeRunningAt(9)
    /\ fps = << <<1, 2>>, <<2, 1>>, <<1, 2>>, <<1, 2>> >>
    /\ args.max_framerate = <<2, 1>>
    /\ RateText(Segments(ArgAfter(log[9].argv, "-filter_complex"))[4]) = <<"2">>

\* the labels a segment reads (its leading [..] pads) and writes (its
\* trailing [..] pads)
RECURSIVE LeadingLabels(_)
LeadingLabels(seg) ==
    IF Len(seg) >= 3 /\ seg[1] = "[" /\ seg[3] = "]"
    THEN <<seg[2]>> \o LeadingLabels(SubSeq(seg, 4, Len(seg)))
    ELSE <<>>

RECURSIVE TrailingLabels(_)
TrailingLabels(seg) ==
    IF Len(seg) >= 3 /\ seg[Len(seg)] = "]" /\ seg[Len(seg) - 2] = "["
    THEN TrailingLabels(SubSeq(seg, 1, Len(seg) - 3)) \o <<seg[Len(seg) - 1]>>
    ELSE <<>>

\* what stands between the pads read and the pads written
Body(seg) ==
    SubSeq(seg, 3 * Len(LeadingLabels(seg)) + 1,
                Len(seg) - 3 * Len(TrailingLabels(seg)))

KindOfBody(body, seg) ==
    IF body = <<"hstack=inputs=2">> THEN "hstack"
    ELSE IF body = <<"vstack=inputs=2">> THEN "vstack"
    ELSE IF body # <<>> /\ body[1] = "scale=" /\ HasRate(seg) THEN "cell"
    ELSE "other"

Kind(seg) == CHOOSE kind \in {KindOfBody(body, seg) : body \in {Body(seg)}} : TRUE

CellLabels == {"vid1", "vid2", "vid3", "vid4"}
StreamLabels == CellLabels \cup {"top", "bottom", "final"}
InputPads == {"0:v", "1:v", "2:v", "3:v"}

\* the labels each segment reads / writes, segment by segment
ReadLists(segs) == [k \in 1..Len(segs) |-> LeadingLabels(segs[k])]
WriteLists(segs) == [k \in 1..Len(segs) |-> TrailingLabels(segs[k])]

\* the places <<segment, position>> where a label stands in such lists
PlacesOf(lists, l) ==
    {w \in (1..Len(lists)) \X (1..2) :
        w[2] <= Len(lists[w[1]]) /\ lists[w[1]][w[2]] = l}

\* C4: while the encoder runs, the filter expression it was given has seven
\* segments:
\* four per-cell ones, then two horizontal stacks, then one vertical stack;
\* each of vid1..vid4, top, bottom, final is written by exactly one segment;
\* each but final is read exactly once, by a later segment than its writer;
\* nothing else is written; final is read by no segment and is what -map
\* selects.
C4_FilterGraphShape ==
    \A i \in Entries : EncodeRunningAt(i) =>
        \A segs \in {Segments(ArgAfter(log[i].argv, "-filter_complex"))} :
        \A reads \in {ReadLists(segs)}, writes \in {WriteLists(segs)} :
            /\ Len(segs) = 7
            /\ \A k \in 1..4 : Kind(segs[k]) = "cell"
            /\ \A k \in 5..6 : Kind(segs[k]) = "hstack"
            /\ Kind(segs[7]) = "vstack"
            /\ \A k \in 1..7 :
                  /\ Len(reads[k]) <= 2
                  /\ Len(writes[k]) <= 2
                  /\ SeqRange(writes[k]) \subseteq StreamLabels
                  /\ SeqRange(reads[k]) \subseteq StreamLabels \cup InputPads
            /\ \A l \in StreamLabels : Cardinality(PlacesOf(writes, l)) = 1
            /\ \A l \in StreamLabels \ {"final"} :
                  /\ Cardinality(PlacesOf(reads, l)) = 1
                  /\ \A w \in PlacesOf(writes, l), r \in PlacesOf(reads, l) :
                        w[1] < r[1]
            /\ PlacesOf(reads, "final") = {}
            /\ Cardinality(FlagAt(log[i].argv, "-map")) = 1
            /\ ArgAfter(log[i].argv, "-map") = <<"[", "final", "]">>

\* an encode invocation whose filter expression is the one built for a
\* 1x1 cell at rate 0.5
C4_Witness ==
    /\ Len(log) = 9 /\ EncodeRunningAt(9)
    /\ video_width = 1 /\ video_height = 1
    /\ max_input_fps = <<1, 2>>
    /\ ArgAfter(log[9].argv, "-filter_complex") = filter_complex
    /\ Len(Segments(filter_complex)) = 7

InputPad(k) == CASE k = 1 -> "0:v" [] k = 2 -> "1:v" [] k = 3 -> "2:v" [] k = 4 -> "3:v"
CellLabel(k) == CASE k = 1 -> "vid1" [] k = 2 -> "vid2" [] k = 3 -> "vid3" [] k = 4 -> "vid4"

\* the segment that writes the label, given the labels each segment writes
WriterOf(segs, writes, l) == segs[(CHOOSE w \in PlacesOf(writes, l) : TRUE)[1]]

\* C5: while the encoder runs, whatever was probed, the k-th -i
\* argument is the k-th input path, encoder input k-1 feeds vid<k>, top is
\* the horizontal stack of vid1, vid2, bottom that of vid3, vid4 and final
\* the vertical stack of top, bottom.
C5_GridPositionsFixed ==
    \A i \in Entries : EncodeRunningAt(i) =>
        \A argv \in {log[i].argv} :
        \A segs \in {Segments(ArgAfter(argv, "-filter_complex"))} :
        \A writes \in {WriteLists(segs)} :
            /\ Cardinality(FlagAt(argv, "-i")) = 4
            /\ \A k \in 1..4 : NthAfter(argv, "-i", k) = <<args.in[k]>>
            /\ Len(segs) = 7
            /\ \A k \in 1..4 :
                  /\ LeadingLabels(segs[k]) = <<InputPad(k)>>
                  /\ writes[k] = <<CellLabel(k)>>
            /\ \A l \in {"top", "bottom", "final"} : PlacesOf(writes, l) # {}
            /\ \A top \in {WriterOf(segs, writes, "top")},
                  bottom \in {WriterOf(segs, writes, "bottom")},
                  final \in {WriterOf(segs, writes, "final")} :
                   /\ Kind(top) = "hstack"
                   /\ LeadingLabels(top) = <<"vid1", "vid2">>
                   /\ Kind(bottom) = "hstack"
                   /\ LeadingLabels(bottom) = <<"vid3", "vid4">>
                   /\ Kind(final) = "vstack"
                   /\ LeadingLabels(final) = <<"top", "bottom">>

\* the longest, fastest input in the last cell: the arguments keep the
\* order of in1..in4
C5_Witness ==
    /\ Len(log) = 9 /\ EncodeRunningAt(9)
    /\ args.in = <<"a.mp4", "b.mp4", "c.mp4", "d.mp4">>
    /\ fps = << <<1, 2>>, <<1, 2>>, <<1, 2>>, <<2, 1>> >>
    /\ dur = <<0, 0, 0, 12>>
    /\ NthAfter(log[9].argv, "-i", 2) = <<"b.mp4">>
    /\ NthAfter(log[9].argv, "-i", 3) = <<"c.mp4">>

\* C6: whenever the encode invocation is reached, the per-cell width and
\* height and the effective frame rate are positive.
C6_PlanPositive ==
    \A i \in Entries : EncodeAt(i) =>
        /\ video_width > 0
        /\ video_height > 0
        /\ RatGt(max_input_fps, <<0, 1>>)


(***************************************************************************)
(* Properties of get_video_framerate, stated on SpecParse.                 *)
(***************************************************************************)
\* the probe output as the parser sees it: without the surrounding blanks
ProbedText ==
    LET t == probe_out.stdout
        inner == {k \in 1..Len(t) : t[k] \notin Whitespace}
    IN  IF inner = {} THEN <<>>
        ELSE SubSeq(t, CHOOSE a \in inner : \A k \in inner : a <= k,
                       CHOOSE b \in inner : \A k \in inner : k <= b)

Slashes(t) == {k \in 1..Len(t) : t[k] = "/"}

\* C9: for probe output that is text, with t the output without the
\* surrounding blanks: with exactly one "/" in t, N before it and D after it,
\* the result is Ok(r) with r * D = N when N and D are numeric and D is not
\* zero, and an error otherwise (D zero, N or D not numeric); with two or
\* more "/" the result is an error; without "/" the result is t parsed as one
\* number, or an error when t is not numeric.  An error carries no rate.
C9_RationalFrameRate ==
    pc = "probed" =>
        \A t \in {ProbedText} : \A r \in {probe_res} :
            /\ Contains(probe_out.stdout, BadByte) => ~r.ok
            /\ (~Contains(probe_out.stdout, BadByte) /\ Cardinality(Slashes(t)) = 1) =>
                  \A k \in Slashes(t) :
                  \A n \in {ParseF64(SubSeq(t, 1, k - 1))},
                     d \in {ParseF64(SubSeq(t, k + 1, Len(t)))} :
                      IF n.ok /\ d.ok /\ d.val[1] # 0
                      THEN /\ r.ok
                           /\ r.val[2] > 0
                           /\ r.val[1] * d.val[1] * n.val[2]
                                 = n.val[1] * r.val[2] * d.val[2]
                      ELSE ~r.ok
            /\ Cardinality(Slashes(t)) >= 2 => ~r.ok
            /\ (~Contains(probe_out.stdout, BadByte) /\ Slashes(t) = {}) =>
                  r = ParseF64(t)
            /\ ~r.ok => "val" \notin DOMAIN r

\* "2/0" is rejected for its denominator
C9_Witness ==
    /\ pc = "probed"
    /\ probe_out.stdout = <<"2", "/", "0", "\n">>
    /\ ~probe_res.ok
    /\ probe_res.err = [msg |-> "Invalid frame rate denominator in",
                        arg |-> <<ProbedPath>>]

====
